---- MODULE Spec2Model ----
(***************************************************************************)
(* rust-calculator: tokenizer (src/src/token.rs), shunting-yard parser     *)
(* (crate::parser::Parser, called by src/src/main.rs) and evaluator        *)
(* (src/src/eval.rs).                                                      *)
(*                                                                         *)
(* A character is a one-character string, a source text a sequence of      *)
(* characters.  A Token is a tuple: <<"Plus">>, ..., <<"Number", v>>.  An   *)
(* f32 literal value v is the exact decimal <<m, e>> = m / 10^e, kept      *)
(* normalised (m not divisible by 10 unless e = 0), so that "12", "12."    *)
(* and "012.0" are one value.  An Expr is <<"Number", v>>, <<"E">>,         *)
(* <<"Pi">>, <<"UnaryOp", kind, operand>> or <<"BinOp", left, kind, right>>.*)
(***************************************************************************)
EXTENDS Integers, Sequences, FiniteSets, TLC

VARIABLES
    source,     \* tokenize: the source text
    pos,        \* tokenize: characters the iterator has consumed
    tokens,     \* tokenize: the local Vec<Token>, then the returned vector
    lres,       \* tokenize: "Running", "Ok", "Err"; "Direct" when the parser is called on a vector of the caller's, "Unused" when parse_expr is
    ptoks,      \* Parser: the tokens its loop has consumed
    output,     \* Parser: the operand stack (top is the last element)
    opStack,    \* Parser: the operator stack (top is the last element)
    pres,       \* Parser: "Pending", "Ok" or the ParserError it returned
    value,      \* run: what expr.eval() returned, <<>> before it is called
    ltoks,      \* parse_expr (parser.rs): the token slice it is called on
    lexpr       \* parse_expr: <<"Idle">>, <<"Pending">>, <<"Panic">> or <<"Ok", expr>>

vars == <<source, pos, tokens, lres, ptoks, output, opStack, pres, value, ltoks, lexpr>>

\* Longest source text drawn.
MaxSrcLen == 4
\* Longest token vector handed directly to the parser.
MaxTokens == 5
\* Longest token slice handed to parse_expr.
MaxLegacyTokens == 5

\* The characters source texts are drawn from: two digits, the dot, the
\* constant letters, every operator and parenthesis character, a blank and
\* a character the tokenizer does not know.
Chars == {"1", "2", ".", "e", "p", "i", "+", "-", "*", "/", "(", ")", " ", "E"}

\* The tokens vectors handed to the parser are drawn from: every operator
\* and parenthesis, a constant and three numbers.
ParserTokens ==
    { <<"Plus">>, <<"Minus">>, <<"UnaryPlus">>, <<"UnaryMinus">>, <<"Times">>,
      <<"TimesTimes">>, <<"Slash">>, <<"ParenStart">>, <<"ParenEnd">>, <<"E">>,
      <<"Number", <<1, 0>>>>, <<"Number", <<2, 0>>>>, <<"Number", <<3, 0>>>> }

Digits == {"0", "1", "2", "3", "4", "5", "6", "7", "8", "9"}

Whitespace == {" ", "\n", "\t"}

DigitVal(c) ==
    CASE c = "0" -> 0 [] c = "1" -> 1 [] c = "2" -> 2 [] c = "3" -> 3
      [] c = "4" -> 4 [] c = "5" -> 5 [] c = "6" -> 6 [] c = "7" -> 7
      [] c = "8" -> 8 [] c = "9" -> 9

Last(s) == s[Len(s)]

Front(s) == SubSeq(s, 1, Len(s) - 1)

(***************************************************************************)
(* Tokens                                                                  *)
(***************************************************************************)
Plus == <<"Plus">>
Minus == <<"Minus">>
UnaryPlus == <<"UnaryPlus">>
UnaryMinus == <<"UnaryMinus">>
Times == <<"Times">>
TimesTimes == <<"TimesTimes">>
Slash == <<"Slash">>
ParenStart == <<"ParenStart">>
ParenEnd == <<"ParenEnd">>
TokE == <<"E">>
TokPi == <<"Pi">>
Ignore == <<"Ignore">>
Number(v) == <<"Number", v>>

is_atom(t) == t[1] \in {"E", "Pi", "Number"}

is_op(t) ==
    t[1] \in {"Plus", "Minus", "UnaryPlus", "UnaryMinus", "Times", "Slash", "TimesTimes"}

\* is_bin_op with Slash forgotten.
is_bin_op_no_slash(t) == t[1] \in {"Plus", "Minus", "Times", "TimesTimes"}

is_bin_op(t) == t[1] \in {"Plus", "Minus", "Times", "Slash", "TimesTimes"}

\* is_unary_op taking the binary signs for unary ones too.
is_unary_op_signs(t) == t[1] \in {"UnaryPlus", "UnaryMinus", "Plus", "Minus"}

is_unary_op(t) == t[1] \in {"UnaryPlus", "UnaryMinus"}

\* is_left_assoc with Minus forgotten.
is_left_assoc_no_minus(t) == t[1] \in {"Plus", "Times"}

\* is_left_assoc true of every binary operator, the power included.
is_left_assoc_all(t) == t[1] \in {"Plus", "Minus", "Times", "Slash", "TimesTimes"}

is_left_assoc(t) == t[1] \in {"Plus", "Minus", "Times"}

\* op_prec with Times and Slash at the precedence of Plus and Minus.
op_prec_flat(t) ==
    CASE t[1] \in {"Plus", "Minus", "Times", "Slash"} -> 1
      [] t[1] = "TimesTimes" -> 3
      [] t[1] \in {"UnaryPlus", "UnaryMinus"} -> 4
      [] OTHER -> 0

\* op_prec with the unary signs below the power, as in written mathematics.
op_prec_unary_low(t) ==
    CASE t[1] \in {"Plus", "Minus"} -> 1
      [] t[1] \in {"Times", "Slash"} -> 2
      [] t[1] = "TimesTimes" -> 4
      [] t[1] \in {"UnaryPlus", "UnaryMinus"} -> 3
      [] OTHER -> 0

op_prec(t) ==
    CASE t[1] \in {"Plus", "Minus"} -> 1
      [] t[1] \in {"Times", "Slash"} -> 2
      [] t[1] = "TimesTimes" -> 3
      [] t[1] \in {"UnaryPlus", "UnaryMinus"} -> 4
      [] OTHER -> 0

\* is_before_unary with ParenStart forgotten.
is_before_unary_no_paren(t) == is_op(t)

is_before_unary(t) == is_op(t) \/ t = ParenStart

is_paren(t) == t \in {ParenStart, ParenEnd}

(***************************************************************************)
(* tokenize_number                                                         *)
(***************************************************************************)
\* The number of characters consumed once the iterator, having consumed p,
\* has taken every digit it peeks (the while-let loops of tokenize_number).
RECURSIVE TakeDigits(_, _)
TakeDigits(src, p) ==
    IF p < Len(src) /\ src[p + 1] \in Digits THEN TakeDigits(src, p + 1) ELSE p

\* The value of a run of digits read as a decimal integer.
RECURSIVE DigitsValue(_)
DigitsValue(ds) ==
    IF ds = <<>> THEN 0 ELSE 10 * DigitsValue(Front(ds)) + DigitVal(Last(ds))

RECURSIVE Pow10(_)
Pow10(n) == IF n = 0 THEN 1 ELSE 10 * Pow10(n - 1)

RECURSIVE Normalise(_)
Normalise(v) ==
    IF v[2] > 0 /\ v[1] % 10 = 0 THEN Normalise(<<v[1] \div 10, v[2] - 1>>) ELSE v

\* acc.parse::<f32>(): acc is digits, digits "." digits, digits "." or "." digits.
ParseF32(acc) ==
    LET dots == {i \in 1..Len(acc) : acc[i] = "."}
        dot == IF dots = {} THEN Len(acc) + 1 ELSE CHOOSE i \in dots : TRUE
        int == SubSeq(acc, 1, dot - 1)
        frac == SubSeq(acc, dot + 1, Len(acc))
    IN Normalise(<<DigitsValue(int) * Pow10(Len(frac)) + DigitsValue(frac), Len(frac)>>)

\* tokenize_number without the check that a single dot is no number.
tokenize_number_lone_dot(src, p, first_digit) ==
    LET p1 == TakeDigits(src, p)
        p2 == IF first_digit # "." /\ p1 < Len(src) /\ src[p1 + 1] = "."
              THEN TakeDigits(src, p1 + 1)
              ELSE p1
    IN [ok |-> TRUE, tok |-> Number(ParseF32(SubSeq(src, p, p2))), pos |-> p2]

\* The iterator has consumed p characters, the last of them first_digit.
\* Returns the token (or the error) and the characters consumed after it.
tokenize_number(src, p, first_digit) ==
    LET p1 == TakeDigits(src, p)
        p2 == IF first_digit # "." /\ p1 < Len(src) /\ src[p1 + 1] = "."
              THEN TakeDigits(src, p1 + 1)
              ELSE p1
    IN IF first_digit = "." /\ p1 = p
       THEN [ok |-> FALSE, tok |-> Ignore, pos |-> p1]
       ELSE [ok |-> TRUE, tok |-> Number(ParseF32(SubSeq(src, p, p2))), pos |-> p2]

(***************************************************************************)
(* expand_implicit_mul                                                     *)
(***************************************************************************)
\* The windows(2) loop with ParenEnd forgotten as a left neighbour.
RECURSIVE InsertIndices_atoms_only(_, _)
InsertIndices_atoms_only(toks, first_index) ==
    IF first_index + 2 > Len(toks) THEN <<>>
    ELSE LET first == toks[first_index + 1]
             second == toks[first_index + 2]
             rest == InsertIndices_atoms_only(toks, first_index + 1)
         IN IF is_atom(first) /\ (is_atom(second) \/ second = ParenStart)
            THEN <<first_index + 1>> \o rest
            ELSE rest

\* The indices collected by the windows(2) loop, in increasing order.
RECURSIVE InsertIndices(_, _)
InsertIndices(toks, first_index) ==
    IF first_index + 2 > Len(toks) THEN <<>>
    ELSE LET first == toks[first_index + 1]
             second == toks[first_index + 2]
             rest == InsertIndices(toks, first_index + 1)
         IN IF (is_atom(first) \/ first = ParenEnd)
               /\ (is_atom(second) \/ second = ParenStart)
            THEN <<first_index + 1>> \o rest
            ELSE rest

\* Vec::insert(i, t), i counted from 0.
VecInsert(v, i, t) == SubSeq(v, 1, i) \o <<t>> \o SubSeq(v, i + 1, Len(v))

\* The insertions, last index first (insert_indices.into_iter().rev()).
RECURSIVE InsertRev(_, _)
InsertRev(toks, idx) ==
    IF idx = <<>> THEN toks
    ELSE InsertRev(VecInsert(toks, Last(idx), Times), Front(idx))

\* The same insertions made first index first: every later index is stale.
RECURSIVE InsertFwd(_, _)
InsertFwd(toks, idx) ==
    IF idx = <<>> THEN toks
    ELSE InsertFwd(VecInsert(toks, Head(idx), Times), Tail(idx))

expand_implicit_mul_fwd(toks) == InsertFwd(toks, InsertIndices(toks, 0))

expand_implicit_mul(toks) == InsertRev(toks, InsertIndices(toks, 0))

(***************************************************************************)
(* tokenize                                                                *)
(***************************************************************************)
\* '+' and '-' with the tokens accepted so far.
Sign(toks, unary, binary) ==
    IF toks # <<>>
    THEN IF is_before_unary(Last(toks)) THEN unary ELSE binary
    ELSE unary

\* Scan skipping a character it does not know, as it skips whitespace.
Scan_skip_unknown(src, p, toks) ==
    LET c == src[p + 1]
        q == p + 1
        peek == IF q < Len(src) THEN src[q + 1] ELSE "EOF"
    IN CASE c = "+" -> [ok |-> TRUE, tok |-> Sign(toks, UnaryPlus, Plus), pos |-> q]
         [] c = "-" -> [ok |-> TRUE, tok |-> Sign(toks, UnaryMinus, Minus), pos |-> q]
         [] c = "*" -> IF peek = "*"
                       THEN [ok |-> TRUE, tok |-> TimesTimes, pos |-> q + 1]
                       ELSE [ok |-> TRUE, tok |-> Times, pos |-> q]
         [] c = "/" -> [ok |-> TRUE, tok |-> Slash, pos |-> q]
         [] c = "(" -> [ok |-> TRUE, tok |-> ParenStart, pos |-> q]
         [] c = ")" -> [ok |-> TRUE, tok |-> ParenEnd, pos |-> q]
         [] c = "e" -> [ok |-> TRUE, tok |-> TokE, pos |-> q]
         [] c = "p" -> IF peek = "i"
                       THEN [ok |-> TRUE, tok |-> TokPi, pos |-> q + 1]
                       ELSE [ok |-> FALSE, tok |-> Ignore, pos |-> q]
         [] c \in Digits -> tokenize_number(src, q, c)
         [] c = "." -> tokenize_number(src, q, ".")
         [] c \in Whitespace -> [ok |-> TRUE, tok |-> Ignore, pos |-> q]
         [] OTHER -> [ok |-> TRUE, tok |-> Ignore, pos |-> q]

\* One iteration of the while-let loop on character source[pos + 1]: the
\* token it yields (Ignore for whitespace) or the error, and the characters
\* consumed after it.
Scan(src, p, toks) ==
    LET c == src[p + 1]
        q == p + 1
        peek == IF q < Len(src) THEN src[q + 1] ELSE "EOF"
    IN CASE c = "+" -> [ok |-> TRUE, tok |-> Sign(toks, UnaryPlus, Plus), pos |-> q]
         [] c = "-" -> [ok |-> TRUE, tok |-> Sign(toks, UnaryMinus, Minus), pos |-> q]
         [] c = "*" -> IF peek = "*"
                       THEN [ok |-> TRUE, tok |-> TimesTimes, pos |-> q + 1]
                       ELSE [ok |-> TRUE, tok |-> Times, pos |-> q]
         [] c = "/" -> [ok |-> TRUE, tok |-> Slash, pos |-> q]
         [] c = "(" -> [ok |-> TRUE, tok |-> ParenStart, pos |-> q]
         [] c = ")" -> [ok |-> TRUE, tok |-> ParenEnd, pos |-> q]
         [] c = "e" -> [ok |-> TRUE, tok |-> TokE, pos |-> q]
         [] c = "p" -> IF peek = "i"
                       THEN [ok |-> TRUE, tok |-> TokPi, pos |-> q + 1]
                       ELSE [ok |-> FALSE, tok |-> Ignore, pos |-> q]
         [] c \in Digits -> tokenize_number(src, q, c)
         [] c = "." -> tokenize_number(src, q, ".")
         [] c \in Whitespace -> [ok |-> TRUE, tok |-> Ignore, pos |-> q]
         [] OTHER -> [ok |-> FALSE, tok |-> Ignore, pos |-> q]

\* One iteration of the loop of tokenize.  An error returns Err at once and
\* drops the local vector.
LexStep ==
    /\ lres = "Running"
    /\ pos < Len(source)
    /\ LET r == Scan(source, pos, tokens)
       IN /\ pos' = r.pos
          /\ IF r.ok
             THEN /\ tokens' = IF r.tok # Ignore THEN Append(tokens, r.tok) ELSE tokens
                  /\ lres' = lres
             ELSE /\ tokens' = <<>>
                  /\ lres' = "Err"
    /\ UNCHANGED <<source, ptoks, output, opStack, pres, value, ltoks, lexpr>>

\* The iterator is exhausted: expand the implicit multiplications, return Ok.
LexFinish ==
    /\ lres = "Running"
    /\ pos = Len(source)
    /\ tokens' = expand_implicit_mul(tokens)
    /\ lres' = "Ok"
    /\ UNCHANGED <<source, pos, ptoks, output, opStack, pres, value, ltoks, lexpr>>

\* Every sequence over S of length at most n.
SeqsUpTo(S, n) == UNION {[1..k -> S] : k \in 0..n}

\* The literal inputs of the tests of token.rs and of the specification's
\* section 8 that are longer than MaxSrcLen or use other characters.
SampleSources ==
    { <<"1", "-", "-", "1">>,
      <<"2", "p", "i">>,
      <<"(", "1", ")", "(", "2", ")">>,
      <<"1", "+", "2", "*", "3">>,
      <<"2", "*", "*", "3", "*", "*", "2">>,
      <<"(", "1", "+", "2">>,
      <<"1", "+", "2", ")">>,
      <<"0", "1", "2", ".", "3", "4", "5">>,
      <<"p", "i", "e">>,
      <<"+", "2", "+", "-", "1", "-", "*", "/", "*", "*", "*">>,
      <<"1", "(", "2", ")">>,
      <<"(", "1", ")", "2">>,
      <<"(", "1", "+", "2", ")", "(", "1", "-", "2", ")", "(", "2", "p", "i", "/", "4", ")">>,
      <<"a", "b", "c">>,
      <<"%">>,
      <<" ", "\n", "\t">>,
      <<"1", "/", "0">> }

InitLex ==
    /\ source \in SeqsUpTo(Chars, MaxSrcLen) \cup SampleSources
    /\ pos = 0
    /\ tokens = <<>>
    /\ lres = "Running"
    /\ ptoks = <<>>
    /\ output = <<>>
    /\ opStack = <<>>
    /\ pres = "Pending"
    /\ value = <<>>
    /\ ltoks = <<>>
    /\ lexpr = <<"Idle">>

NextLex == LexStep \/ LexFinish

\* tokenize alone, on every source text of at most MaxSrcLen characters.
SpecLex == InitLex /\ [][NextLex]_vars

(***************************************************************************)
(* Parser::parse: the operator-precedence (shunting-yard) parser that      *)
(* main.rs runs on the tokens.  The loop follows the specification's       *)
(* section 4.2; the predicates on tokens it consults are those of          *)
(* token.rs above.                                                         *)
(***************************************************************************)
UnaryOp(kind, operand) == <<"UnaryOp", kind, operand>>

BinOp(left, kind, right) == <<"BinOp", left, kind, right>>

\* The leaf of an atom token.
Leaf(t) == t

UnaryOpType(op) == IF op = UnaryMinus THEN "Negate" ELSE "Noop"

BinOpType(op) ==
    CASE op = Plus -> "Add"
      [] op = Minus -> "Sub"
      [] op = Times -> "Mul"
      [] op = Slash -> "Div"
      [] op = TimesTimes -> "Pow"

\* apply_op: pop one operand for a unary operator, two for a binary one
\* (the right one first), push the node.  A pop from the empty stack is
\* NotEnoughOperands, at once.
apply_op(out, op) ==
    CASE is_unary_op(op) ->
           IF Len(out) < 1
           THEN [err |-> "NotEnoughOperands", out |-> <<>>]
           ELSE [err |-> "None",
                 out |-> Append(Front(out), UnaryOp(UnaryOpType(op), Last(out)))]
      [] is_bin_op(op) ->
           IF Len(out) < 2
           THEN [err |-> "NotEnoughOperands", out |-> <<>>]
           ELSE [err |-> "None",
                 out |-> Append(SubSeq(out, 1, Len(out) - 2),
                                BinOp(out[Len(out) - 1], BinOpType(op), Last(out)))]
      [] OTHER -> [err |-> "UnsupportedOperator", out |-> <<>>]

\* Whether the operator on top of the stack is applied before the incoming
\* operator t is pushed.
ShouldPop(top, t) ==
    /\ top # ParenStart
    /\ \/ op_prec(top) > op_prec(t)
       \/ op_prec(top) = op_prec(t) /\ is_left_assoc(t)

\* An operator token: apply the operators it yields to, then push it.
RECURSIVE PushOperator(_, _, _)
PushOperator(out, ops, t) ==
    IF ops # <<>> /\ ShouldPop(Last(ops), t)
    THEN LET r == apply_op(out, Last(ops))
         IN IF r.err # "None"
            THEN [err |-> r.err, out |-> <<>>, ops |-> <<>>]
            ELSE PushOperator(r.out, Front(ops), t)
    ELSE [err |-> "None", out |-> out, ops |-> Append(ops, t)]

\* A ParenEnd: apply the operators down to the nearest ParenStart and
\* discard it; the stack running empty is MismatchedParenthesis.
RECURSIVE CloseParen(_, _)
CloseParen(out, ops) ==
    IF ops = <<>>
    THEN [err |-> "MismatchedParenthesis", out |-> <<>>, ops |-> <<>>]
    ELSE IF Last(ops) = ParenStart
    THEN [err |-> "None", out |-> out, ops |-> Front(ops)]
    ELSE LET r == apply_op(out, Last(ops))
         IN IF r.err # "None"
            THEN [err |-> r.err, out |-> <<>>, ops |-> <<>>]
            ELSE CloseParen(r.out, Front(ops))

\* The loop body on token t.
ParseToken(out, ops, t) ==
    CASE is_atom(t) -> [err |-> "None", out |-> Append(out, Leaf(t)), ops |-> ops]
      [] is_op(t) -> PushOperator(out, ops, t)
      [] t = ParenStart -> [err |-> "None", out |-> out, ops |-> Append(ops, t)]
      [] t = ParenEnd -> CloseParen(out, ops)
      [] OTHER -> [err |-> "UnexpectedOperator", out |-> <<>>, ops |-> <<>>]

\* The input is exhausted: apply what is left on the operator stack,
\* skipping the parentheses, then check that one expression is left.
RECURSIVE Drain(_, _)
Drain(out, ops) ==
    IF ops = <<>>
    THEN IF Len(out) = 0 THEN [err |-> "NotEnoughOperands", out |-> <<>>]
         ELSE IF Len(out) > 1 THEN [err |-> "TooMuchOperands", out |-> <<>>]
         ELSE [err |-> "None", out |-> out]
    ELSE IF is_paren(Last(ops))
    THEN Drain(out, Front(ops))
    ELSE LET r == apply_op(out, Last(ops))
         IN IF r.err # "None" THEN r ELSE Drain(r.out, Front(ops))

\* The parser takes token t.  An error is returned at once, and drops the
\* stacks.
Consume(t) ==
    LET r == ParseToken(output, opStack, t)
    IN /\ ptoks' = Append(ptoks, t)
       /\ output' = r.out
       /\ opStack' = r.ops
       /\ pres' = IF r.err = "None" THEN pres ELSE r.err

\* The parser, run on the vector tokenize returned, takes its next token.
ParseNext ==
    /\ lres = "Ok"
    /\ pres = "Pending"
    /\ Len(ptoks) < Len(tokens)
    /\ Consume(tokens[Len(ptoks) + 1])
    /\ UNCHANGED <<source, pos, tokens, lres, value, ltoks, lexpr>>

\* The parser, run on a vector of the caller's, takes its next token: any
\* token of ParserTokens, the vector being at most MaxTokens long.
FeedToken ==
    /\ lres = "Direct"
    /\ pres = "Pending"
    /\ Len(ptoks) < MaxTokens
    /\ \E t \in ParserTokens : Consume(t)
    /\ UNCHANGED <<source, pos, tokens, lres, value, ltoks, lexpr>>

\* The end of the token vector: the result of parse.  On Ok the expression
\* is the one element of output.
ParseFinish ==
    /\ pres = "Pending"
    /\ \/ lres = "Ok" /\ Len(ptoks) = Len(tokens)
       \/ lres = "Direct"
    /\ LET r == Drain(output, opStack)
       IN /\ output' = r.out
          /\ pres' = IF r.err = "None" THEN "Ok" ELSE r.err
    /\ opStack' = <<>>
    /\ UNCHANGED <<source, pos, tokens, lres, ptoks, value, ltoks, lexpr>>

InitParse ==
    /\ source = <<>>
    /\ pos = 0
    /\ tokens = <<>>
    /\ lres = "Direct"
    /\ ptoks = <<>>
    /\ output = <<>>
    /\ opStack = <<>>
    /\ pres = "Pending"
    /\ value = <<>>
    /\ ltoks = <<>>
    /\ lexpr = <<"Idle">>

NextParse == FeedToken \/ ParseFinish

\* Parser::parse alone, on every vector of at most MaxTokens tokens.
SpecParse == InitParse /\ [][NextParse]_vars

(***************************************************************************)
(* Eval for Expr (eval.rs).  A value is <<"Int", n>> for an integer f32    *)
(* holds exactly (|n| <= 2^24), <<"Const", c>> for the constants E and PI, *)
(* <<"Inf", sign>> for a non-zero integer divided by zero, and             *)
(* <<"Float">> for every other f32, which the model does not compute.      *)
(***************************************************************************)
\* 2^24: every integer up to it is an f32.
F32ExactInt == 2^24

Abs(n) == IF n < 0 THEN -n ELSE n

IntVal(n) == IF Abs(n) <= F32ExactInt THEN <<"Int", n>> ELSE <<"Float">>

\* a * b, without leaving the integers the model holds.
MulVal(a, b) ==
    IF a = 0 \/ b = 0 THEN <<"Int", 0>>
    ELSE IF Abs(a) <= F32ExactInt \div Abs(b) THEN <<"Int", a * b>>
    ELSE <<"Float">>

\* powf on an integer base and a non-negative integer exponent.
RECURSIVE PowVal(_, _)
PowVal(b, n) ==
    IF n = 0 THEN <<"Int", 1>>
    ELSE LET r == PowVal(b, n - 1)
         IN IF r[1] = "Int" THEN MulVal(r[2], b) ELSE r

DivVal(a, b) ==
    IF b = 0 THEN (IF a = 0 THEN <<"Float">> ELSE <<"Inf", IF a > 0 THEN 1 ELSE -1>>)
    ELSE IF Abs(a) % Abs(b) = 0
         THEN <<"Int", (IF (a < 0) = (b < 0) THEN 1 ELSE -1) * (Abs(a) \div Abs(b))>>
    ELSE <<"Float">>

\* eval with the two constants taken for each other.
RECURSIVE eval_consts_swapped(_)
eval_consts_swapped(e) ==
    CASE e[1] = "Number" -> IF e[2][2] = 0 THEN IntVal(e[2][1]) ELSE <<"Float">>
      [] e[1] = "E" -> <<"Const", "PI">>
      [] e[1] = "Pi" -> <<"Const", "E">>
      [] e[1] = "UnaryOp" ->
           LET x == eval_consts_swapped(e[3])
           IN IF e[2] = "Noop" THEN x
              ELSE IF x[1] = "Int" THEN <<"Int", -x[2]>>
              ELSE IF x[1] = "Inf" THEN <<"Inf", -x[2]>>
              ELSE <<"Float">>
      [] e[1] = "BinOp" ->
           LET l == eval_consts_swapped(e[2])
               r == eval_consts_swapped(e[4])
           IN IF l[1] # "Int" \/ r[1] # "Int" THEN <<"Float">>
              ELSE CASE e[3] = "Add" -> IntVal(l[2] + r[2])
                     [] e[3] = "Sub" -> IntVal(l[2] - r[2])
                     [] e[3] = "Mul" -> MulVal(l[2], r[2])
                     [] e[3] = "Div" -> DivVal(l[2], r[2])
                     [] e[3] = "Pow" -> IF r[2] >= 0 /\ r[2] <= 24
                                        THEN PowVal(l[2], r[2])
                                        ELSE <<"Float">>

RECURSIVE eval(_)
eval(e) ==
    CASE e[1] = "Number" -> IF e[2][2] = 0 THEN IntVal(e[2][1]) ELSE <<"Float">>
      [] e[1] = "E" -> <<"Const", "E">>
      [] e[1] = "Pi" -> <<"Const", "PI">>
      [] e[1] = "UnaryOp" ->
           LET x == eval(e[3])
           IN IF e[2] = "Noop" THEN x
              ELSE IF x[1] = "Int" THEN <<"Int", -x[2]>>
              ELSE IF x[1] = "Inf" THEN <<"Inf", -x[2]>>
              ELSE <<"Float">>
      [] e[1] = "BinOp" ->
           LET l == eval(e[2])
               r == eval(e[4])
           IN IF l[1] # "Int" \/ r[1] # "Int" THEN <<"Float">>
              ELSE CASE e[3] = "Add" -> IntVal(l[2] + r[2])
                     [] e[3] = "Sub" -> IntVal(l[2] - r[2])
                     [] e[3] = "Mul" -> MulVal(l[2], r[2])
                     [] e[3] = "Div" -> DivVal(l[2], r[2])
                     [] e[3] = "Pow" -> IF r[2] >= 0 /\ r[2] <= 24
                                        THEN PowVal(l[2], r[2])
                                        ELSE <<"Float">>

\* run, after parse returned Ok: println!("{}", expr.eval()).
EvalStep ==
    /\ lres = "Ok"
    /\ pres = "Ok"
    /\ value = <<>>
    /\ value' = eval(output[1])
    /\ UNCHANGED <<source, pos, tokens, lres, ptoks, output, opStack, pres, ltoks, lexpr>>

Init == InitLex

Next == LexStep \/ LexFinish \/ ParseNext \/ ParseFinish \/ EvalStep

\* main.rs: tokenize, parse what it returned, evaluate the expression.
Spec == Init /\ [][Next]_vars

(***************************************************************************)
(* The recursive-descent parser of parser.rs, over its own Token enum, and *)
(* the tree of ast.rs.  Plus, Minus, Times, ParenStart, ParenEnd, E and Pi *)
(* are written as the tokens of token.rs of the same names; Div and        *)
(* Digit(c) are its own.  An Option is <<>> (None) or <<x>> (Some(x)).  An *)
(* Add or a Mul is the record [lhs, op, rhs]; an Atom is <<"Literal", l>>  *)
(* or <<"Add", a>>; a Literal is <<"Digit", n>>, <<"E">> or <<"Pi">>.  A    *)
(* parse function returns [ok, node, rest]; a panic is ok = FALSE.         *)
(***************************************************************************)
Div == <<"Div">>

Digit(c) == <<"Digit", c>>

\* The tokens the slices handed to parse_expr are drawn from.
LegacyTokens ==
    {Plus, Minus, Times, Div, ParenStart, ParenEnd, TokE, TokPi, Digit("1"), Digit("2")}

is_add_op(t) == t = Plus \/ t = Minus

is_mul_op(t) == t = Times \/ t = Div

\* Add::small leaving an operator in the node.
Add_small_with_op(lhs) == [lhs |-> lhs, op |-> <<"Add">>, rhs |-> <<>>]

Add_small(lhs) == [lhs |-> lhs, op |-> <<>>, rhs |-> <<>>]

Mul_small(lhs) == [lhs |-> lhs, op |-> <<>>, rhs |-> <<>>]

Panic == [ok |-> FALSE, node |-> <<>>, rest |-> <<>>]

\* The length of the run of Digit tokens that starts toks (take_while).
RECURSIVE DigitRun(_)
DigitRun(toks) ==
    IF toks # <<>> /\ Head(toks)[1] = "Digit" THEN 1 + DigitRun(Tail(toks)) ELSE 0

\* Called on a slice that starts with a Digit.  The i64 holds every run of
\* at most MaxLegacyTokens + 1 digits.
parse_digit(toks) ==
    LET n == DigitRun(toks)
    IN [ok |-> TRUE,
        node |-> DigitsValue([i \in 1..n |-> toks[i][2]]),
        rest |-> SubSeq(toks, n + 1, Len(toks))]

\* Called on a non-empty slice.
parse_literal(toks) ==
    IF toks[1][1] = "Digit"
    THEN LET r == parse_digit(toks)
         IN [ok |-> TRUE, node |-> <<"Digit", r.node>>, rest |-> r.rest]
    ELSE IF toks[1] = TokE THEN [ok |-> TRUE, node |-> <<"E">>, rest |-> Tail(toks)]
    ELSE IF toks[1] = TokPi THEN [ok |-> TRUE, node |-> <<"Pi">>, rest |-> Tail(toks)]
    ELSE Panic

RECURSIVE parse_add(_)

\* tokens[0] panics on an empty slice, here and after parse_add.
parse_atom(toks) ==
    IF toks = <<>> THEN Panic
    ELSE IF toks[1] = ParenStart
    THEN LET r == parse_add(Tail(toks))
         IN IF ~r.ok THEN Panic
            ELSE IF r.rest = <<>> THEN Panic
            ELSE IF r.rest[1] # ParenEnd THEN Panic
            ELSE [ok |-> TRUE, node |-> <<"Add", r.node>>, rest |-> Tail(r.rest)]
    ELSE LET r == parse_literal(toks)
         IN IF ~r.ok THEN Panic
            ELSE [ok |-> TRUE, node |-> <<"Literal", r.node>>, rest |-> r.rest]

RECURSIVE parse_mul(_)
parse_mul(toks) ==
    LET a == parse_atom(toks)
    IN IF ~a.ok THEN Panic
       ELSE IF a.rest # <<>> /\ is_mul_op(a.rest[1])
       THEN LET op == IF a.rest[1] = Times THEN "Mul" ELSE "Div"
                m == parse_mul(Tail(a.rest))
            IN IF ~m.ok THEN Panic
               ELSE [ok |-> TRUE,
                     node |-> [lhs |-> a.node, op |-> <<op>>, rhs |-> <<m.node>>],
                     rest |-> m.rest]
       ELSE [ok |-> TRUE, node |-> Mul_small(a.node), rest |-> a.rest]

parse_add(toks) ==
    LET m == parse_mul(toks)
    IN IF ~m.ok THEN Panic
       ELSE IF m.rest # <<>> /\ is_add_op(m.rest[1])
       THEN LET op == IF m.rest[1] = Plus THEN "Add" ELSE "Sub"
                a == parse_add(Tail(m.rest))
            IN IF ~a.ok THEN Panic
               ELSE [ok |-> TRUE,
                     node |-> [lhs |-> m.node, op |-> <<op>>, rhs |-> <<a.node>>],
                     rest |-> a.rest]
       ELSE [ok |-> TRUE, node |-> Add_small(m.node), rest |-> m.rest]

parse_expr(toks) ==
    LET r == parse_add(toks)
    IN IF ~r.ok THEN <<"Panic">>
       ELSE IF r.rest # <<>> THEN <<"Panic">>
       ELSE <<"Ok", [inner |-> r.node]>>

\* A call of parse_expr.
LegacyParse ==
    /\ lexpr = <<"Pending">>
    /\ lexpr' = parse_expr(ltoks)
    /\ UNCHANGED <<source, pos, tokens, lres, ptoks, output, opStack, pres, value, ltoks>>

InitLegacy ==
    /\ source = <<>>
    /\ pos = 0
    /\ tokens = <<>>
    /\ lres = "Unused"
    /\ ptoks = <<>>
    /\ output = <<>>
    /\ opStack = <<>>
    /\ pres = "Pending"
    /\ value = <<>>
    /\ ltoks \in SeqsUpTo(LegacyTokens, MaxLegacyTokens)
    /\ lexpr = <<"Pending">>

NextLegacy == LegacyParse

\* parse_expr alone, on every slice of at most MaxLegacyTokens tokens.
SpecLegacy == InitLegacy /\ [][NextLegacy]_vars

(***************************************************************************)
(* Properties                                                              *)
(***************************************************************************)
N1 == <<"Number", <<1, 0>>>>
N2 == <<"Number", <<2, 0>>>>
N3 == <<"Number", <<3, 0>>>>

IsAtomTok(t) == t[1] \in {"Number", "E", "Pi"}

IsOperatorTok(t) ==
    t[1] \in {"Plus", "Minus", "UnaryPlus", "UnaryMinus", "Times", "Slash", "TimesTimes"}

Arity(t) == IF t[1] \in {"UnaryPlus", "UnaryMinus"} THEN 1 ELSE 2

KindOf(t) ==
    CASE t[1] = "Plus" -> "Add" [] t[1] = "Minus" -> "Sub" [] t[1] = "Times" -> "Mul"
      [] t[1] = "Slash" -> "Div" [] t[1] = "TimesTimes" -> "Pow"
      [] t[1] = "UnaryMinus" -> "Negate" [] t[1] = "UnaryPlus" -> "Noop"

\* The parser has returned on the whole of ptoks.
Parsed == pres # "Pending"

\* C1: in every run of tokenize, a '+' or '-' is emitted as UnaryPlus or
\* UnaryMinus exactly when no token has been accepted before it or the last
\* accepted token is an operator or ParenStart, and as Plus or Minus when
\* the last accepted token is a Number, E, Pi or ParenEnd; whitespace is
\* not an accepted token; "1--1" gives Number(1), Minus, UnaryMinus,
\* Number(1).
C1_SignIsUnaryAfterOperatorOrParen ==
    [][/\ (lres = "Running" /\ pos < Len(source) /\ source[pos + 1] \in {"+", "-"}) =>
            LET unary == IF source[pos + 1] = "+" THEN <<"UnaryPlus">> ELSE <<"UnaryMinus">>
                binary == IF source[pos + 1] = "+" THEN <<"Plus">> ELSE <<"Minus">>
                first == tokens = <<>>
                afterOp == ~first /\ Last(tokens)[1] \in
                              {"Plus", "Minus", "UnaryPlus", "UnaryMinus", "Times",
                               "Slash", "TimesTimes", "ParenStart"}
                afterOperand == ~first /\ Last(tokens)[1] \in
                              {"Number", "E", "Pi", "ParenEnd"}
            IN /\ (first \/ afterOp) => tokens' = Append(tokens, unary)
               /\ afterOperand => tokens' = Append(tokens, binary)
               /\ first \/ afterOp \/ afterOperand
       /\ (lres = "Running" /\ pos < Len(source) /\ source[pos + 1] \in Whitespace) =>
            tokens' = tokens
       /\ (lres' = "Ok" /\ source = <<"1", "-", "-", "1">>) =>
            tokens' = <<N1, <<"Minus">>, <<"UnaryMinus">>, N1>>
      ]_vars

C1_Witness ==
    /\ lres = "Ok"
    /\ source = <<"1", "-", "-", "1">>
    /\ tokens = <<N1, <<"Minus">>, <<"UnaryMinus">>, N1>>

\* The vector s with one Times between every adjacent pair whose first is
\* an atom or ParenEnd and whose second is an atom or ParenStart.
RECURSIVE WithImplicitTimes(_)
WithImplicitTimes(s) ==
    IF Len(s) < 2 THEN s
    ELSE <<s[1]>>
         \o (IF s[1][1] \in {"Number", "E", "Pi", "ParenEnd"}
                /\ s[2][1] \in {"Number", "E", "Pi", "ParenStart"}
             THEN << <<"Times">> >> ELSE <<>>)
         \o WithImplicitTimes(Tail(s))

\* C2: the vector tokenize returns is the scanned vector with exactly one
\* Times inserted between every adjacent pair (A, B), A an atom or ParenEnd
\* and B an atom or ParenStart, pairs sharing a token included, and nothing
\* else added, removed or reordered; "2pi" gives Number(2), Times, Pi and
\* "(1)(2)" gets one Times between the groups.
C2_ImplicitTimesBetweenOperands ==
    [][(lres = "Running" /\ lres' = "Ok") =>
          /\ tokens' = WithImplicitTimes(tokens)
          /\ source = <<"2", "p", "i">> => tokens' = <<N2, <<"Times">>, <<"Pi">>>>
          /\ source = <<"(", "1", ")", "(", "2", ")">> =>
               tokens' = << <<"ParenStart">>, N1, <<"ParenEnd">>, <<"Times">>,
                            <<"ParenStart">>, N2, <<"ParenEnd">> >>
      ]_vars

C2_Witness ==
    /\ lres = "Ok"
    /\ source = <<"e", "e", "e">>
    /\ tokens = << <<"E">>, <<"Times">>, <<"E">>, <<"Times">>, <<"E">> >>

\* C3: the tokens of a+b*c, a-b*c, a+b/c and a-b/c, for all atoms a, b, c,
\* parse to the additive node over a and the multiplicative node of b and
\* c; 1+2*3 evaluates to 7.
C3_MulBindsTighterThanAdd ==
    (/\ Parsed
     /\ Len(ptoks) = 5
     /\ IsAtomTok(ptoks[1]) /\ IsAtomTok(ptoks[3]) /\ IsAtomTok(ptoks[5])
     /\ ptoks[2][1] \in {"Plus", "Minus"}
     /\ ptoks[4][1] \in {"Times", "Slash"}) =>
        /\ pres = "Ok"
        /\ output = << <<"BinOp", ptoks[1], KindOf(ptoks[2]),
                          <<"BinOp", ptoks[3], KindOf(ptoks[4]), ptoks[5]>> >> >>
        /\ ptoks = <<N1, <<"Plus">>, N2, <<"Times">>, N3>> =>
             eval(output[1]) = <<"Int", 7>>

C3_Witness ==
    /\ pres = "Ok"
    /\ ptoks = <<N1, <<"Plus">>, N2, <<"Times">>, N3>>
    /\ eval(output[1]) = <<"Int", 7>>

C5_DivLeftAssociative ==
    (/\ Parsed
     /\ Len(ptoks) = 5
     /\ IsAtomTok(ptoks[1]) /\ IsAtomTok(ptoks[3]) /\ IsAtomTok(ptoks[5])
     /\ ptoks[2][1] \in {"Times", "Slash"}
     /\ ptoks[4][1] = "Slash") =>
        /\ pres = "Ok"
        /\ output = << <<"BinOp", <<"BinOp", ptoks[1], KindOf(ptoks[2]), ptoks[3]>>,
                          "Div", ptoks[5]>> >>

\* C6: the tokens of a**b**c parse to Pow(a, Pow(b,c)), those of a*b**c and
\* a/b**c to the node of * or / over a and Pow(b,c), and those of a**b*c
\* and a**b/c to the node of * or / over Pow(a,b) and c, for all atoms a,
\* b, c; 2**3**2 evaluates to 512.
C6_PowRightAssociativeAndTighter ==
    (/\ Parsed
     /\ Len(ptoks) = 5
     /\ IsAtomTok(ptoks[1]) /\ IsAtomTok(ptoks[3]) /\ IsAtomTok(ptoks[5])) =>
        /\ (ptoks[2][1] \in {"TimesTimes", "Times", "Slash"} /\ ptoks[4][1] = "TimesTimes") =>
             /\ pres = "Ok"
             /\ output = << <<"BinOp", ptoks[1], KindOf(ptoks[2]),
                               <<"BinOp", ptoks[3], "Pow", ptoks[5]>> >> >>
        /\ (ptoks[2][1] = "TimesTimes" /\ ptoks[4][1] \in {"Times", "Slash"}) =>
             /\ pres = "Ok"
             /\ output = << <<"BinOp", <<"BinOp", ptoks[1], "Pow", ptoks[3]>>,
                               KindOf(ptoks[4]), ptoks[5]>> >>
        /\ ptoks = <<N2, <<"TimesTimes">>, N3, <<"TimesTimes">>, N2>> =>
             eval(output[1]) = <<"Int", 512>>

C6_Witness ==
    /\ pres = "Ok"
    /\ ptoks = <<N2, <<"TimesTimes">>, N3, <<"TimesTimes">>, N2>>
    /\ output = << <<"BinOp", N2, "Pow", <<"BinOp", N3, "Pow", N2>> >> >>
    /\ eval(output[1]) = <<"Int", 512>>

IsUnaryTok(t) == t[1] \in {"UnaryPlus", "UnaryMinus"}

IsBinaryTok(t) == t[1] \in {"Plus", "Minus", "Times", "Slash", "TimesTimes"}

\* C7: for all atoms a, b, unary signs u, v and binary operators op (the
\* power included), the tokens of u a op b parse to the node of op over the
\* unary node of a and b, those of a op u b to the node of op over a and the
\* unary node of b, and those of u v a to the unary node of the unary node
\* of a, without error: -a**b is Pow(Negate(a), b).
C7_UnaryBindsTightest ==
    /\ (/\ Parsed /\ Len(ptoks) = 4
        /\ IsUnaryTok(ptoks[1]) /\ IsAtomTok(ptoks[2])
        /\ IsBinaryTok(ptoks[3]) /\ IsAtomTok(ptoks[4])) =>
           /\ pres = "Ok"
           /\ output = << <<"BinOp", <<"UnaryOp", KindOf(ptoks[1]), ptoks[2]>>,
                             KindOf(ptoks[3]), ptoks[4]>> >>
    /\ (/\ Parsed /\ Len(ptoks) = 4
        /\ IsAtomTok(ptoks[1]) /\ IsBinaryTok(ptoks[2])
        /\ IsUnaryTok(ptoks[3]) /\ IsAtomTok(ptoks[4])) =>
           /\ pres = "Ok"
           /\ output = << <<"BinOp", ptoks[1], KindOf(ptoks[2]),
                             <<"UnaryOp", KindOf(ptoks[3]), ptoks[4]>> >> >>
    /\ (/\ Parsed /\ Len(ptoks) = 3
        /\ IsUnaryTok(ptoks[1]) /\ IsUnaryTok(ptoks[2]) /\ IsAtomTok(ptoks[3])) =>
           /\ pres = "Ok"
           /\ output = << <<"UnaryOp", KindOf(ptoks[1]),
                             <<"UnaryOp", KindOf(ptoks[2]), ptoks[3]>> >> >>

C7_Witness ==
    /\ pres = "Ok"
    /\ ptoks = << <<"UnaryMinus">>, N2, <<"TimesTimes">>, N3 >>
    /\ output = << <<"BinOp", <<"UnaryOp", "Negate", N2>>, "Pow", N3>> >>

\* C8: the tokens of "(a op b", a ParenStart that nothing closes before an
\* otherwise complete expression, for all atoms a, b and binary operators
\* op, fail with MismatchedParenthesis: no expression is returned, and no
\* other error.
C8_UnclosedParenIsMismatched ==
    (/\ Parsed
     /\ Len(ptoks) = 4
     /\ ptoks[1] = <<"ParenStart">>
     /\ IsAtomTok(ptoks[2]) /\ IsBinaryTok(ptoks[3]) /\ IsAtomTok(ptoks[4])) =>
        pres = "MismatchedParenthesis"

\* The operators on the stack ops above its topmost ParenStart (all of
\* them when it holds none), the top first.
RECURSIVE AboveParen(_)
AboveParen(ops) ==
    IF ops = <<>> \/ Last(ops)[1] = "ParenStart" THEN <<>>
    ELSE <<Last(ops)>> \o AboveParen(Front(ops))

HasParenStart(ops) == \E i \in 1..Len(ops) : ops[i][1] = "ParenStart"

\* The operators of the stack ops that are no parentheses, the top first.
RECURSIVE NonParens(_)
NonParens(ops) ==
    IF ops = <<>> THEN <<>>
    ELSE (IF Last(ops)[1] \in {"ParenStart", "ParenEnd"} THEN <<>> ELSE <<Last(ops)>>)
         \o NonParens(Front(ops))

\* The operators on top of the stack ops that yield to the incoming
\* operator t, the top first.
RECURSIVE Yielding(_, _)
Yielding(ops, t) ==
    IF ops # <<>> /\ ShouldPop(Last(ops), t)
    THEN <<Last(ops)>> \o Yielding(Front(ops), t)
    ELSE <<>>

\* Applying the operators of seq in order to a stack of n operands finds,
\* at some application, fewer operands than the operator's arity.
RECURSIVE Starved(_, _)
Starved(seq, n) ==
    /\ seq # <<>>
    /\ \/ n < Arity(Head(seq))
       \/ Starved(Tail(seq), n - Arity(Head(seq)) + 1)

NumBinary(seq) == Cardinality({i \in 1..Len(seq) : Arity(seq[i]) = 2})

RECURSIVE NoParenNode(_)
NoParenNode(e) ==
    CASE e[1] \in {"Number", "E", "Pi"} -> TRUE
      [] e[1] = "UnaryOp" -> e[2] \in {"Negate", "Noop"} /\ NoParenNode(e[3])
      [] e[1] = "BinOp" -> /\ e[3] \in {"Add", "Sub", "Mul", "Div", "Pow"}
                           /\ NoParenNode(e[2]) /\ NoParenNode(e[4])
      [] OTHER -> FALSE

\* C9, as claimed: a ParenEnd met with no ParenStart on the operator stack
\* fails with MismatchedParenthesis.
C9_StrayParenEndIsMismatched ==
    [][(/\ pres = "Pending"
        /\ ptoks' = Append(ptoks, <<"ParenEnd">>)
        /\ ~HasParenStart(opStack)) =>
           pres' = "MismatchedParenthesis"]_vars

\* C9, amended: a ParenEnd applies the operators above the topmost
\* ParenStart, the top first.  If one of them finds too few operands the
\* parse fails with NotEnoughOperands; otherwise, with no ParenStart on
\* the stack it fails with MismatchedParenthesis (the tokens of "1+2)"),
\* and with one the operators are applied and the ParenStart is discarded.
\* No returned tree holds a parenthesis.
C9_ParenEndAppliesThenMatches ==
    [][/\ (pres = "Pending" /\ ptoks' = Append(ptoks, <<"ParenEnd">>)) =>
            LET above == AboveParen(opStack)
            IN IF Starved(above, Len(output))
               THEN pres' = "NotEnoughOperands"
               ELSE IF ~HasParenStart(opStack)
               THEN pres' = "MismatchedParenthesis"
               ELSE /\ pres' = "Pending"
                    /\ opStack' = SubSeq(opStack, 1, Len(opStack) - Len(above) - 1)
                    /\ Len(output') = Len(output) - NumBinary(above)
       /\ (pres' = "Ok") => (Len(output') = 1 /\ NoParenNode(output'[1]))
       /\ (ptoks' = <<N1, <<"Plus">>, N2, <<"ParenEnd">>>>) =>
            pres' = "MismatchedParenthesis"
      ]_vars

C9_Witness ==
    /\ pres = "MismatchedParenthesis"
    /\ ptoks = <<N1, <<"Plus">>, N2, <<"ParenEnd">>>>

\* C10: whenever a step of the parser applies operators and one of them
\* finds fewer operands on the output stack than its arity (one for a
\* unary operator, two for a binary one), that step fails with
\* NotEnoughOperands; the end of the input with nothing left on the output
\* stack fails with NotEnoughOperands too; so do the single token UnaryPlus
\* and the empty vector; and a failed parse returns no expression.
C10_NotEnoughOperands ==
    [][pres = "Pending" =>
         /\ (ptoks' = ptoks /\ pres' # "Pending") =>
              LET applied == NonParens(opStack)
              IN /\ Starved(applied, Len(output)) => pres' = "NotEnoughOperands"
                 /\ (~Starved(applied, Len(output))
                       /\ Len(output) - NumBinary(applied) = 0) =>
                      pres' = "NotEnoughOperands"
                 /\ ptoks \in {<<>>, << <<"UnaryPlus">> >>} => pres' = "NotEnoughOperands"
         /\ (ptoks' = Append(ptoks, <<"ParenEnd">>)
               /\ Starved(AboveParen(opStack), Len(output))) =>
              pres' = "NotEnoughOperands"
         /\ (ptoks' # ptoks /\ IsOperatorTok(Last(ptoks'))
               /\ Starved(Yielding(opStack, Last(ptoks')), Len(output))) =>
              pres' = "NotEnoughOperands"
         /\ pres' = "NotEnoughOperands" => output' = <<>>
      ]_vars

C10_Witness ==
    /\ pres = "NotEnoughOperands"
    /\ ptoks = << <<"UnaryPlus">> >>
    /\ output = <<>>

\* A numeric literal: digits and at most one dot, a lone dot excepted
\* (digits [ "." [ digits ] ] or "." digits).
IsLiteral(run) ==
    /\ run # <<>>
    /\ run # <<".">>
    /\ \A i \in 1..Len(run) : run[i] \in Digits \cup {"."}
    /\ Cardinality({i \in 1..Len(run) : run[i] = "."}) <= 1

\* The digits of a run, the dot left out, and their number after the dot.
RECURSIVE RunDigits(_)
RunDigits(run) ==
    IF run = <<>> THEN <<>>
    ELSE (IF Head(run) = "." THEN <<>> ELSE <<Head(run)>>) \o RunDigits(Tail(run))

FractionDigits(run) ==
    IF \E i \in 1..Len(run) : run[i] = "."
    THEN Len(run) - (CHOOSE i \in 1..Len(run) : run[i] = ".")
    ELSE 0

\* The integer the digits ds spell, the first digit first.
RECURSIVE Spelled(_, _)
Spelled(ds, acc) ==
    IF ds = <<>> THEN acc ELSE Spelled(Tail(ds), 10 * acc + DigitVal(Head(ds)))

\* C11: a step of tokenize on a digit or a dot takes the longest run from
\* there that is a numeric literal and appends exactly one Number token
\* with the decimal value of the run; it fails exactly when the character
\* is a dot that no digit follows; so no literal holds two dots.  "12" and
\* "12." give Number(12), ".4" gives Number(0.4), "012.345" gives
\* Number(12.345), "." fails.
C11_NumberIsLongestLiteral ==
    [][/\ (lres = "Running" /\ pos < Len(source) /\ source[pos + 1] \in Digits \cup {"."}) =>
            LET ends == {q \in (pos + 1)..Len(source) :
                            IsLiteral(SubSeq(source, pos + 1, q))}
                loneDot == /\ source[pos + 1] = "."
                           /\ (pos + 1 = Len(source) \/ source[pos + 2] \notin Digits)
            IN /\ loneDot <=> lres' = "Err"
               /\ loneDot <=> ends = {}
               /\ ends # {} =>
                    LET q == CHOOSE q \in ends : \A r \in ends : r <= q
                        run == SubSeq(source, pos + 1, q)
                    IN /\ pos' = q
                       /\ Len(tokens') = Len(tokens) + 1
                       /\ SubSeq(tokens', 1, Len(tokens)) = tokens
                       /\ Last(tokens')[1] = "Number"
                       /\ LET v == Last(tokens')[2]
                          IN /\ v[1] * Pow10(FractionDigits(run))
                                  = Spelled(RunDigits(run), 0) * Pow10(v[2])
                             /\ v[2] > 0 => v[1] % 10 # 0
       /\ (lres' = "Ok" /\ source \in {<<"1", "2">>, <<"1", "2", ".">>}) =>
            tokens' = << <<"Number", <<12, 0>>>> >>
       /\ (lres' = "Ok" /\ source = <<".", "4">>) =>
            tokens' = << <<"Number", <<4, 1>>>> >>
       /\ (lres' = "Ok" /\ source = <<"0", "1", "2", ".", "3", "4", "5">>) =>
            tokens' = << <<"Number", <<12345, 3>>>> >>
       /\ source = <<".">> => lres' # "Ok"
      ]_vars

C11_Witness ==
    /\ lres = "Ok"
    /\ source = <<"0", "1", "2", ".", "3", "4", "5">>
    /\ tokens = << <<"Number", <<12345, 3>>>> >>

\* The characters tokenize knows, whitespace apart.
KnownChars == {"+", "-", "*", "/", "(", ")", "e", "p", "."} \cup Digits

\* C12: a step of tokenize on a character that is neither whitespace nor
\* known, or on a 'p' that no 'i' follows, returns the error and no token
\* vector, whatever was accepted before; after the error nothing more is
\* returned; a step on whitespace accepts no token, and a source of
\* whitespace alone gives the empty vector.
C12_UnknownCharacterFailsAtOnce ==
    [][/\ (lres = "Running" /\ pos < Len(source)) =>
            LET c == source[pos + 1]
                unknown == c \notin KnownChars \cup Whitespace
                badPi == c = "p" /\ (pos + 1 = Len(source) \/ source[pos + 2] # "i")
            IN /\ (unknown \/ badPi) => (lres' = "Err" /\ tokens' = <<>>)
               /\ c \in Whitespace => (tokens' = tokens /\ lres' = "Running" /\ pos' = pos + 1)
       /\ lres = "Err" => lres' = "Err"
       /\ (lres' = "Ok" /\ \A i \in 1..Len(source) : source[i] \in Whitespace) =>
            tokens' = <<>>
      ]_vars

\* Number(1) and Plus were accepted before the unknown 'E'.
C12_Witness ==
    /\ lres = "Err"
    /\ source = <<"1", "+", "E">>
    /\ pos = 3
    /\ tokens = <<>>

RECURSIVE DigitTokens(_)
DigitTokens(n) ==
    IF n < 10
    THEN <<Digit(CHOOSE c \in Digits : DigitVal(c) = n)>>
    ELSE Append(DigitTokens(n \div 10), Digit(CHOOSE c \in Digits : DigitVal(c) = n % 10))

RECURSIVE YieldAdd(_)
RECURSIVE YieldMul(_)
YieldAtom(a) ==
    IF a[1] = "Add" THEN <<ParenStart>> \o YieldAdd(a[2]) \o <<ParenEnd>>
    ELSE IF a[2][1] = "Digit" THEN DigitTokens(a[2][2])
    ELSE IF a[2][1] = "E" THEN <<TokE>>
    ELSE <<TokPi>>

OpToken(op) ==
    CASE op = "Add" -> Plus [] op = "Sub" -> Minus [] op = "Mul" -> Times [] op = "Div" -> Div

YieldMul(m) ==
    YieldAtom(m.lhs)
        \o (IF Len(m.op) = 1 THEN <<OpToken(m.op[1])>> ELSE <<>>)
        \o (IF Len(m.rhs) = 1 THEN YieldMul(m.rhs[1]) ELSE <<>>)

YieldAdd(a) ==
    YieldMul(a.lhs)
        \o (IF Len(a.op) = 1 THEN <<OpToken(a.op[1])>> ELSE <<>>)
        \o (IF Len(a.rhs) = 1 THEN YieldAdd(a.rhs[1]) ELSE <<>>)

\* Every Add and Mul of the tree holds its operator exactly when it holds
\* its right operand.
RECURSIVE PopulatedAdd(_)
RECURSIVE PopulatedMul(_)
PopulatedAtom(a) == a[1] = "Add" => PopulatedAdd(a[2])

PopulatedMul(m) ==
    /\ Len(m.op) = Len(m.rhs)
    /\ Len(m.op) = 1 => m.op[1] \in {"Mul", "Div"}
    /\ PopulatedAtom(m.lhs)
    /\ Len(m.rhs) = 1 => PopulatedMul(m.rhs[1])

PopulatedAdd(a) ==
    /\ Len(a.op) = Len(a.rhs)
    /\ Len(a.op) = 1 => a.op[1] \in {"Add", "Sub"}
    /\ PopulatedMul(a.lhs)
    /\ Len(a.rhs) = 1 => PopulatedAdd(a.rhs[1])

\* C14: every tree parse_expr returns is well formed: it is one Expr whose
\* root spells the whole token slice, and in every Add and Mul node of it
\* op is present exactly when rhs is present, for every slice on which
\* parse_expr does not panic.
C14_ReturnedTreeIsWellFormed ==
    lexpr[1] = "Ok" =>
        /\ PopulatedAdd(lexpr[2].inner)
        /\ YieldAdd(lexpr[2].inner) = ltoks

LitMul(l) == Mul_small(<<"Literal", l>>)

\* "1+2*3", as in the test of parse_add.
C14_Witness ==
    /\ ltoks = <<Digit("1"), Plus, Digit("2"), Times, Digit("1")>>
    /\ lexpr[1] = "Ok"
    /\ lexpr[2].inner.lhs = LitMul(<<"Digit", 1>>)
    /\ lexpr[2].inner.op = <<"Add">>
    /\ lexpr[2].inner.rhs[1].op = <<>>
    /\ lexpr[2].inner.rhs[1].rhs = <<>>
    /\ lexpr[2].inner.rhs[1].lhs.op = <<"Mul">>
    /\ lexpr[2].inner.rhs[1].lhs.lhs = <<"Literal", <<"Digit", 2>>>>
    /\ lexpr[2].inner.rhs[1].lhs.rhs = <<LitMul(<<"Digit", 1>>)>>

\* C15: in the vector a successful tokenize returns, between any two atom
\* tokens stands at least one binary operator token, whatever whitespace,
\* parentheses or signs the source has between them; and the parser, run
\* on what tokenize returned, never returns TooMuchOperands.
C15_AtomsSeparatedSoNeverTooMuchOperands ==
    /\ lres = "Ok" =>
         \A i, j \in 1..Len(tokens) :
            (i < j /\ IsAtomTok(tokens[i]) /\ IsAtomTok(tokens[j])) =>
                \E k \in (i + 1)..(j - 1) : IsBinaryTok(tokens[k])
    /\ lres = "Ok" => pres # "TooMuchOperands"

\* "1 2": the blank is dropped, a Times is put between the two numbers,
\* and the pipeline prints 2.
C15_Witness ==
    /\ source = <<"1", " ", "2">>
    /\ tokens = <<N1, Times, N2>>
    /\ pres = "Ok"
    /\ output = << <<"BinOp", <<"Number", <<1, 0>>>>, "Mul", <<"Number", <<2, 0>>>>>> >>
    /\ value = <<"Int", 2>>

====
